---- MODULE Spec2Model ----
(***************************************************************************)
(* Voice session of automatizor-agent: the useVoiceChat hook               *)
(* (src/hooks/useVoiceChat.ts) driving the useAudioRecorder hook           *)
(* (src/hooks/useAudioRecorder.ts), the shared platform audio mode and the *)
(* text-to-speech engine, with the buttons of src/components/VoiceChat.tsx *)
(* as the callers.                                                         *)
(*                                                                         *)
(* Everything runs on one event loop.  An async function runs atomically   *)
(* from its call to its first pending await, and from the resolution of    *)
(* one await to the next; every such segment is one action.  The pending   *)
(* calls are the records of `tasks'.  A setState is visible to every       *)
(* handler invoked afterwards; a function already running keeps the        *)
(* values of the render it was created in (its closure), which the task    *)
(* record carries.  A platform call (permission request, setAudioModeAsync,*)
(* Recording.createAsync, stopAndUnloadAsync) resolves or rejects.         *)
(***************************************************************************)
EXTENDS Naturals, FiniteSets, Sequences, Bags

VARIABLES
    state,              \* useVoiceChat: state
    transcript,         \* useVoiceChat: transcript
    aiResponse,         \* useVoiceChat: aiResponse
    isPlaying,          \* useVoiceChat: isPlaying
    isRecording,        \* useAudioRecorder: isRecording
    recordingDuration,  \* useAudioRecorder: recordingDuration
    hasPermission,      \* useAudioRecorder: hasPermission ("null", "true", "false")
    recordingRef,       \* useAudioRecorder: recordingRef.current is non-null
    intervalRef,        \* useAudioRecorder: intervalRef.current is non-null
    leakedInterval,     \* some live setInterval timer is no longer held by intervalRef
    audioMode,          \* platform audio mode: "recording" or "neutral"
    speech,             \* utterances queued or playing in the speech engine
    tasks,              \* bag of the async calls suspended at an await
    last,               \* the step just taken
    ticks,              \* ticks fired on a held handle since the last capture was opened
    pm,                 \* processMessage: the input of its calls, the calls pending, the replies returned
    messages,           \* ChatScreen: messages
    isLoading,          \* ChatScreen: isLoading
    requests,           \* the handleSendMessage calls suspended at await processMessage
    sent                \* the handleSendMessage calls made so far

voiceVars == <<state, transcript, aiResponse, isPlaying, isRecording,
               recordingDuration, hasPermission, recordingRef, intervalRef,
               leakedInterval, audioMode, speech, tasks, last, ticks>>

screenVars == <<messages, isLoading, requests, sent>>

chatVars == <<pm, messages, isLoading, requests, sent>>

vars == <<state, transcript, aiResponse, isPlaying, isRecording,
          recordingDuration, hasPermission, recordingRef, intervalRef,
          leakedInterval, audioMode, speech, tasks, last, ticks, pm,
          messages, isLoading, requests, sent>>

\* ---------------------------------------------------------------- bounds
MaxTasks == 2
MaxDuration == 3
MaxUtterances == 2

\* ------------------------------------------------------------- constants
ResetPasses == 3
ResponseText == "Hola, soy tu asistente automatizador. Con gusto te ayudaré a agendar las tareas que quieras!"
TranscriptDone == "Audio procesado correctamente"


\* ----------------------------------------------------------------- tasks
\* One suspended async call: the function the user invoked, the await it is
\* at, forceAudioReset's loop index, and what its closure holds
\* (stopRecording's recordingDuration).  n and cancelled record, for the
\* properties only, the ticks counted when stopRecording was called and
\* whether a cancelVoiceChat has completed since.
Task(fn, pc) ==
    [fn |-> fn, pc |-> pc, i |-> 0, dur |-> 0, n |-> 0, cancelled |-> FALSE]

Pending == BagToSet(tasks)
CanSpawn == BagCardinality(tasks) < MaxTasks
Spawn(u) == tasks (+) SetToBag({u})
Remove(t) == tasks (-) SetToBag({t})
Replace(t, u) == (tasks (-) SetToBag({t})) (+) SetToBag({u})

\* the step just taken: its name, whether the call it resumed had been
\* overtaken by a completed cancelVoiceChat, and how a recorder call that
\* completed in it came back to its caller: stopRecording with null or a
\* result, startRecording and cancelRecording with nothing (void); closed
\* tells the step was the close button's, pressed in speaking
NoReturn == [kind |-> "none", uri |-> "none", duration |-> 0, n |-> 0]
VoidReturn == [kind |-> "void", uri |-> "none", duration |-> 0, n |-> 0]
NullReturn == [kind |-> "null", uri |-> "none", duration |-> 0, n |-> 0]
Result(uri, t) ==
    [kind |-> "result", uri |-> uri, duration |-> t.dur, n |-> t.n]
Step(op) ==
    [op |-> op, cancelled |-> FALSE, ret |-> NoReturn, closed |-> FALSE]
StepOf(op, t) ==
    [op |-> op, cancelled |-> t.cancelled, ret |-> NoReturn, closed |-> FALSE]
StepRet(op, t, r) ==
    [op |-> op, cancelled |-> t.cancelled, ret |-> r, closed |-> FALSE]

\* processMessage has not been called
NoCall == [content |-> <<>>, kind |-> "none", pending |-> 0, replies |-> <<>>]

\* ChatScreen.tsx:95-103: the message the mount effect puts in the list.  A
\* message is its isUser, content and type; req tells which handleSendMessage
\* call it belongs to (0: none), where the code gives it an id of its own.
\* The emoji of the two greetings is left out of their text.
WelcomeMessage ==
    [isUser |-> FALSE, content |-> "¡Hola! ¿En qué te puedo ayudar hoy?",
     type |-> "text", req |-> 0]

\* ------------------------------------------------------------------ Init
\* useVoiceChat.ts:11-17 and useAudioRecorder.ts:6-24: the hooks' initial
\* values; hasPermission is null until the mount effect's checkPermissions
\* has resolved, and stays null if that call threw
Init ==
    /\ state = "idle"
    /\ transcript = ""
    /\ aiResponse = ""
    /\ isPlaying = FALSE
    /\ isRecording = FALSE
    /\ recordingDuration = 0
    /\ hasPermission \in {"null", "true", "false"}
    /\ recordingRef = FALSE
    /\ intervalRef = FALSE
    /\ leakedInterval = FALSE
    /\ audioMode = "neutral"
    /\ speech = 0
    /\ tasks = EmptyBag
    /\ last = Step("init")
    /\ ticks = 0
    /\ pm = NoCall
    /\ messages = <<WelcomeMessage>>
    /\ isLoading = FALSE
    /\ requests = {}
    /\ sent = 0

\* ------------------------------------------------------- startListening
\* useVoiceChat.ts:120-127: forceAudioReset is entered, not awaited, as soon
\* as startRecording has returned: Speech.stop(), then the first neutral
\* setAudioModeAsync is pending
forceAudioReset_call(t) ==
    /\ speech' = 0
    /\ tasks' = Replace(t, [t EXCEPT !.pc = "reset", !.i = 0])

\* useVoiceChat.ts:33-40 with useAudioRecorder.ts:52-61; the "Hablar" button
\* of the idle state (VoiceChat.tsx:274-282)
startListening ==
    /\ state = "idle"
    /\ CanSpawn
    /\ state' = "listening"
    /\ transcript' = ""
    /\ aiResponse' = ""
    /\ tasks' = Spawn(Task("startListening",
                           IF hasPermission # "true" THEN "requestPermissions"
                                                     ELSE "setAudioMode"))
    /\ last' = Step("startListening")
    /\ UNCHANGED <<isPlaying, isRecording, recordingDuration, hasPermission,
                   recordingRef, intervalRef, leakedInterval, audioMode,
                   speech, ticks>>

\* startRecording_notGranted as it would be if the audio mode were switched
\* ahead of the permission check
startRecording_notGranted_afterAudioMode ==
    /\ audioMode' = "recording"
    /\ UNCHANGED <<isRecording, recordingDuration, recordingRef, intervalRef,
                   leakedInterval>>

\* useAudioRecorder.ts:55-59: startRecording returns as soon as
\* requestPermissions has come back with false
startRecording_notGranted ==
    UNCHANGED <<isRecording, recordingDuration, recordingRef, intervalRef,
                leakedInterval, audioMode>>

\* useAudioRecorder.ts:26-50 and 56-60
requestPermissions_done ==
    \E t \in Pending :
      /\ t.fn = "startListening" /\ t.pc = "requestPermissions"
      /\ \E r \in {"granted", "denied", "throws"} :
           IF r = "granted"
           THEN /\ hasPermission' = "true"
                /\ tasks' = Replace(t, [t EXCEPT !.pc = "setAudioMode"])
                /\ speech' = speech
                /\ last' = StepOf("permissionGranted", t)
                /\ UNCHANGED <<isRecording, recordingDuration, recordingRef,
                               intervalRef, leakedInterval, audioMode>>
           ELSE /\ hasPermission' = "false"
                /\ startRecording_notGranted
                /\ forceAudioReset_call(t)
                /\ last' = StepRet("permissionDenied", t, VoidReturn)
      /\ UNCHANGED <<state, transcript, aiResponse, isPlaying, ticks>>

\* useAudioRecorder.ts:61-64 and the catch at 77-81
startRecording_setAudioMode_done ==
    \E t \in Pending :
      /\ t.fn = "startListening" /\ t.pc = "setAudioMode"
      /\ \E ok \in BOOLEAN :
           IF ok
           THEN /\ audioMode' = "recording"
                /\ tasks' = Replace(t, [t EXCEPT !.pc = "createAsync"])
                /\ UNCHANGED <<isRecording, speech>>
                /\ last' = StepOf("recordingMode", t)
           ELSE /\ isRecording' = FALSE
                /\ forceAudioReset_call(t)
                /\ audioMode' = audioMode
                /\ last' = StepRet("startFailed", t, VoidReturn)
      /\ UNCHANGED <<state, transcript, aiResponse, isPlaying,
                     recordingDuration, hasPermission, recordingRef,
                     intervalRef, leakedInterval, ticks>>

\* useAudioRecorder.ts:68-75: what a resolved createAsync stores
startRecording_opened ==
    [recordingRef |-> TRUE, isRecording |-> TRUE, recordingDuration |-> 0,
     intervalRef |-> TRUE]

\* useAudioRecorder.ts:65-75 and the catch at 77-81.  Line 73 overwrites
\* intervalRef without clearing a timer it still holds.
startRecording_createAsync_done ==
    \E t \in Pending :
      /\ t.fn = "startListening" /\ t.pc = "createAsync"
      /\ \E ok \in BOOLEAN :
           IF ok
           THEN /\ recordingRef' = startRecording_opened.recordingRef
                /\ isRecording' = startRecording_opened.isRecording
                /\ recordingDuration' = startRecording_opened.recordingDuration
                /\ intervalRef' = startRecording_opened.intervalRef
                /\ leakedInterval' = (leakedInterval \/ intervalRef)
                /\ ticks' = 0
                /\ last' = StepRet("opened", t, VoidReturn)
           ELSE /\ isRecording' = FALSE
                /\ UNCHANGED <<recordingRef, recordingDuration, intervalRef,
                               leakedInterval, ticks>>
                /\ last' = StepRet("startFailed", t, VoidReturn)
      /\ forceAudioReset_call(t)
      /\ UNCHANGED <<state, transcript, aiResponse, isPlaying, hasPermission,
                     audioMode>>

\* forceAudioReset_mode as it would be if a pass switched the mode over
forceAudioReset_mode_switched ==
    IF audioMode = "neutral" THEN "recording" ELSE "neutral"

\* useVoiceChat.ts:127-133: the mode every pass asks for, allowsRecordingIOS
\* false
forceAudioReset_mode == "neutral"

\* useVoiceChat.ts:126-142: one pass of the loop, from the pending neutral
\* setAudioModeAsync to the next one (the 200 ms wait between them changes
\* nothing); a rejection ends the function in its catch, and after the last
\* pass only waits remain
forceAudioReset_setAudioMode_done ==
    \E t \in Pending :
      /\ t.fn = "startListening" /\ t.pc = "reset"
      /\ \E ok \in BOOLEAN :
           /\ audioMode' = IF ok THEN forceAudioReset_mode ELSE audioMode
           /\ tasks' = IF ok /\ t.i + 1 < ResetPasses
                       THEN Replace(t, [t EXCEPT !.i = t.i + 1])
                       ELSE Remove(t)
           /\ last' = StepOf(IF ok THEN "resetMode" ELSE "resetFailed", t)
      /\ UNCHANGED <<state, transcript, aiResponse, isPlaying, isRecording,
                     recordingDuration, hasPermission, recordingRef,
                     intervalRef, leakedInterval, speech, ticks>>

\* useAudioRecorder.ts:73-75: one firing of a live interval timer
tick ==
    /\ intervalRef \/ leakedInterval
    /\ recordingDuration < MaxDuration
    /\ recordingDuration' = recordingDuration + 1
    /\ ticks' = IF recordingRef THEN ticks + 1 ELSE ticks
    /\ last' = Step("tick")
    /\ UNCHANGED <<state, transcript, aiResponse, isPlaying, isRecording,
                   hasPermission, recordingRef, intervalRef, leakedInterval,
                   audioMode, speech, tasks>>

\* -------------------------------------------------------- stopListening
\* stopRecording_noHandle as it would be with the audio-mode reset ahead of
\* the handle check
stopRecording_noHandle_resetsMode ==
    /\ audioMode' = "neutral"
    /\ UNCHANGED <<isRecording, recordingDuration, intervalRef, recordingRef>>

\* useAudioRecorder.ts:86: stopRecording with no handle returns null before
\* it touches anything
stopRecording_noHandle ==
    UNCHANGED <<isRecording, recordingDuration, intervalRef, recordingRef,
                audioMode>>

\* useAudioRecorder.ts:87-91 and 114-118: stopRecording and cancelRecording
\* with a handle, up to the pending stopAndUnloadAsync
Recorder_halt ==
    /\ isRecording' = FALSE
    /\ intervalRef' = FALSE

\* stopRecording_duration as it would be if the second in progress counted
stopRecording_duration_roundedUp == recordingDuration + 1

\* useAudioRecorder.ts:102: the duration reported is the recordingDuration of
\* the render stopRecording was created in, the one current at the call
stopRecording_duration == recordingDuration

\* useVoiceChat.ts:55-58 with useAudioRecorder.ts:84-93, the "Detener" button
\* of the listening state (VoiceChat.tsx:247-255).  With no handle the null
\* result is there at once and useVoiceChat.ts:86 follows in the same turn
\* of the event loop.
stopListening ==
    /\ state = "listening"
    /\ IF ~recordingRef
       THEN /\ stopRecording_noHandle
            /\ state' = "idle"
            /\ tasks' = tasks
            /\ last' = [Step("stopNoHandle") EXCEPT !.ret = NullReturn]
       ELSE /\ CanSpawn
            /\ state' = "processing"
            /\ Recorder_halt
            /\ tasks' = Spawn([Task("stopListening", "stopAndUnload")
                                 EXCEPT !.dur = stopRecording_duration,
                                        !.n = ticks])
            /\ last' = Step("stopListening")
            /\ UNCHANGED <<recordingDuration, recordingRef, audioMode>>
    /\ UNCHANGED <<transcript, aiResponse, isPlaying, hasPermission,
                   leakedInterval, speech, ticks>>

\* stopRecording_catch as it would be if the catch passed the error on
stopRecording_catch_rethrows == [NullReturn EXCEPT !.kind = "rejected"]

\* useAudioRecorder.ts:104-108: what stopRecording gives its caller when a
\* platform call, or the getURI() of line 98 on a cleared reference, threw
stopRecording_catch == NullReturn

\* useAudioRecorder.ts:93 and the catch at 104-108, then useVoiceChat.ts:86
\* (or 88-91, which sets the same state)
stopRecording_stopAndUnload_done ==
    \E t \in Pending :
      /\ t.fn = "stopListening" /\ t.pc = "stopAndUnload"
      /\ \E ok \in BOOLEAN :
           IF ok
           THEN /\ tasks' = Replace(t, [t EXCEPT !.pc = "setAudioMode"])
                /\ state' = state
                /\ last' = StepOf("unloaded", t)
           ELSE /\ tasks' = Remove(t)
                /\ state' = "idle"
                /\ last' = StepRet("stopFailed", t, stopRecording_catch)
      /\ UNCHANGED <<transcript, aiResponse, isPlaying, isRecording,
                     recordingDuration, hasPermission, recordingRef,
                     intervalRef, leakedInterval, audioMode, speech, ticks>>

\* stopListening_result as it would be without the setState('speaking')
stopListening_result_staysProcessing ==
    [transcript |-> TranscriptDone, aiResponse |-> ResponseText,
     state |-> "processing"]

\* useVoiceChat.ts:60-72: the turn data and the state written when the
\* recorder returned a result with a uri
stopListening_result ==
    [transcript |-> TranscriptDone, aiResponse |-> ResponseText,
     state |-> "speaking"]

\* useAudioRecorder.ts:94-103 and the catch at 104-108, then
\* useVoiceChat.ts:60-75 or 86.  Line 98 dereferences recordingRef.current
\* and throws if the reference has been cleared meanwhile; getURI() may
\* return null.
stopRecording_setAudioMode_done ==
    \E t \in Pending :
      /\ t.fn = "stopListening" /\ t.pc = "setAudioMode"
      /\ \E ok \in BOOLEAN, uri \in {"file", "null"} :
           IF ok /\ recordingRef /\ uri = "file"
           THEN /\ audioMode' = "neutral"
                /\ recordingRef' = FALSE
                /\ transcript' = stopListening_result.transcript
                /\ aiResponse' = stopListening_result.aiResponse
                /\ state' = stopListening_result.state
                /\ tasks' = Replace(t, [t EXCEPT !.pc = "wait500"])
                /\ last' = StepRet("stopResult", t, Result(uri, t))
           ELSE /\ audioMode' = IF ok THEN "neutral" ELSE audioMode
                /\ recordingRef' = IF ok THEN FALSE ELSE recordingRef
                /\ UNCHANGED <<transcript, aiResponse>>
                /\ state' = "idle"
                /\ tasks' = Remove(t)
                /\ last' = IF ok /\ recordingRef
                           THEN StepRet("stopNoUri", t, Result(uri, t))
                           ELSE StepRet("stopFailed", t, stopRecording_catch)
      /\ UNCHANGED <<isPlaying, isRecording, recordingDuration, hasPermission,
                     intervalRef, leakedInterval, speech, ticks>>

\* useVoiceChat.ts:75-78 and 94-99: the 500 ms wait is over, playAIResponse
\* calls Speech.stop() and starts its 300 ms wait
stopListening_wait500_done ==
    \E t \in Pending :
      /\ t.fn = "stopListening" /\ t.pc = "wait500"
      /\ speech' = 0
      /\ tasks' = Replace(t, [t EXCEPT !.pc = "wait300"])
      /\ last' = StepOf("playAIResponse", t)
      /\ UNCHANGED <<state, transcript, aiResponse, isPlaying, isRecording,
                     recordingDuration, hasPermission, recordingRef,
                     intervalRef, leakedInterval, audioMode, ticks>>

\* useVoiceChat.ts:99-111: the 300 ms wait is over, Speech.speak is called
playAIResponse_wait300_done ==
    \E t \in Pending :
      /\ t.fn = "stopListening" /\ t.pc = "wait300"
      /\ speech < MaxUtterances
      /\ speech' = speech + 1
      /\ tasks' = Remove(t)
      /\ last' = StepOf("speak", t)
      /\ UNCHANGED <<state, transcript, aiResponse, isPlaying, isRecording,
                     recordingDuration, hasPermission, recordingRef,
                     intervalRef, leakedInterval, audioMode, ticks>>

\* onDone as it would be if the callback also reset the turn data
onDone_clearsTurnData ==
    /\ speech > 0
    /\ speech' = speech - 1
    /\ state' = "idle"
    /\ transcript' = ""
    /\ aiResponse' = ""
    /\ last' = Step("onDone")
    /\ UNCHANGED <<isPlaying, isRecording, recordingDuration, hasPermission,
                   recordingRef, intervalRef, leakedInterval, audioMode,
                   tasks, ticks>>

\* useVoiceChat.ts:104-106: the engine has finished an utterance
onDone ==
    /\ speech > 0
    /\ speech' = speech - 1
    /\ state' = "idle"
    /\ last' = Step("onDone")
    /\ UNCHANGED <<transcript, aiResponse, isPlaying, isRecording,
                   recordingDuration, hasPermission, recordingRef,
                   intervalRef, leakedInterval, audioMode, tasks, ticks>>

\* useVoiceChat.ts:107-110: the engine has failed on an utterance
onError ==
    /\ speech > 0
    /\ speech' = speech - 1
    /\ state' = "idle"
    /\ last' = Step("onError")
    /\ UNCHANGED <<transcript, aiResponse, isPlaying, isRecording,
                   recordingDuration, hasPermission, recordingRef,
                   intervalRef, leakedInterval, audioMode, tasks, ticks>>

\* stopSpeech_setState as it would be if the state were reset only when an
\* utterance is there to stop
stopSpeech_setState_ifPlaying == IF speech > 0 THEN "idle" ELSE state

\* useVoiceChat.ts:232-233: the state stopSpeech sets, with no condition
stopSpeech_setState == "idle"

\* useVoiceChat.ts:230-234, the "Detener" button of the speaking state
\* (VoiceChat.tsx:265-273)
stopSpeech ==
    /\ state = "speaking"
    /\ speech' = 0
    /\ state' = stopSpeech_setState
    /\ last' = Step("stopSpeech")
    /\ UNCHANGED <<transcript, aiResponse, isPlaying, isRecording,
                   recordingDuration, hasPermission, recordingRef,
                   intervalRef, leakedInterval, audioMode, tasks, ticks>>

\* ------------------------------------------------------ cancelVoiceChat
\* cancelVoiceChat_reset as it would be without the two turn-data resets
cancelVoiceChat_reset_keepsTurnData ==
    [isPlaying |-> FALSE, state |-> "idle", transcript |-> transcript,
     aiResponse |-> aiResponse]

\* useVoiceChat.ts:215-218: the values cancelVoiceChat ends with
cancelVoiceChat_reset ==
    [isPlaying |-> FALSE, state |-> "idle", transcript |-> "",
     aiResponse |-> ""]

\* a stopListening still suspended when a cancelVoiceChat completes is
\* marked; the code keeps no such mark
Overtaken(u) ==
    IF u.fn = "stopListening" THEN [u EXCEPT !.cancelled = TRUE] ELSE u

\* useVoiceChat.ts:196-218: after the recorder has been dealt with.  soundRef
\* and speechTimeoutRef are never assigned, so their branches do nothing;
\* Speech.stop() is called only if isPlaying.
cancelVoiceChat_finish(rest, sp) ==
    /\ speech' = IF isPlaying THEN 0 ELSE sp
    /\ isPlaying' = cancelVoiceChat_reset.isPlaying
    /\ state' = cancelVoiceChat_reset.state
    /\ transcript' = cancelVoiceChat_reset.transcript
    /\ aiResponse' = cancelVoiceChat_reset.aiResponse
    /\ tasks' = BagOfAll(Overtaken, rest)

\* useVoiceChat.ts:189-194 with useAudioRecorder.ts:111-120.  stopFirst: the
\* caller has just run stopSpeech (VoiceChat.tsx:236-238).  With isRecording
\* true and no handle, cancelRecording returns at line 113.
cancelVoiceChat_call(stopFirst) ==
    LET sp == IF stopFirst THEN 0 ELSE speech
    IN  /\ IF isRecording /\ recordingRef
           THEN /\ CanSpawn
                /\ Recorder_halt
                /\ speech' = sp
                /\ state' = IF stopFirst THEN stopSpeech_setState ELSE state
                /\ tasks' = Spawn(Task("cancelVoiceChat", "stopAndUnload"))
                /\ UNCHANGED <<isPlaying, transcript, aiResponse>>
                /\ last' = [Step("cancelPending") EXCEPT !.closed = stopFirst]
           ELSE /\ cancelVoiceChat_finish(tasks, sp)
                /\ UNCHANGED <<isRecording, intervalRef>>
                /\ last' = [Step("cancelDone") EXCEPT
                               !.ret = IF isRecording THEN VoidReturn
                                                      ELSE NoReturn,
                               !.closed = stopFirst]
        /\ UNCHANGED <<recordingDuration, hasPermission, recordingRef,
                       leakedInterval, audioMode, ticks>>

\* the "Cancelar" button of the processing state (VoiceChat.tsx:256-264) and
\* the close button of src/unnamed/part_001:160-163, there in every state
cancelVoiceChat == cancelVoiceChat_call(FALSE)

\* handleClose as it is in src/unnamed/part_001:160-163, without the
\* stopSpeech
handleClose_cancelOnly == cancelVoiceChat_call(FALSE)

\* VoiceChat.tsx:234-243, the close button
handleClose == cancelVoiceChat_call(state = "speaking")

\* useAudioRecorder.ts:120 and the catch at 127-129, then
\* useVoiceChat.ts:196-218
cancelRecording_stopAndUnload_done ==
    \E t \in Pending :
      /\ t.fn = "cancelVoiceChat" /\ t.pc = "stopAndUnload"
      /\ \E ok \in BOOLEAN :
           IF ok
           THEN /\ tasks' = Replace(t, [t EXCEPT !.pc = "setAudioMode"])
                /\ UNCHANGED <<state, transcript, aiResponse, isPlaying,
                               speech>>
                /\ last' = StepOf("unloaded", t)
           ELSE /\ cancelVoiceChat_finish(Remove(t), speech)
                /\ last' = StepRet("cancelDone", t, VoidReturn)
      /\ UNCHANGED <<isRecording, recordingDuration, hasPermission,
                     recordingRef, intervalRef, leakedInterval, audioMode,
                     ticks>>

\* useAudioRecorder.ts:121-126 and the catch at 127-129, then
\* useVoiceChat.ts:196-218
cancelRecording_setAudioMode_done ==
    \E t \in Pending :
      /\ t.fn = "cancelVoiceChat" /\ t.pc = "setAudioMode"
      /\ \E ok \in BOOLEAN :
           /\ audioMode' = IF ok THEN "neutral" ELSE audioMode
           /\ recordingRef' = IF ok THEN FALSE ELSE recordingRef
           /\ recordingDuration' = IF ok THEN 0 ELSE recordingDuration
      /\ cancelVoiceChat_finish(Remove(t), speech)
      /\ last' = StepRet("cancelDone", t, VoidReturn)
      /\ UNCHANGED <<isRecording, hasPermission, intervalRef, leakedInterval,
                     ticks>>

\* ------------------------------------------------------------------ Next
Next ==
    \/ startListening /\ UNCHANGED chatVars
    \/ requestPermissions_done /\ UNCHANGED chatVars
    \/ startRecording_setAudioMode_done /\ UNCHANGED chatVars
    \/ startRecording_createAsync_done /\ UNCHANGED chatVars
    \/ forceAudioReset_setAudioMode_done /\ UNCHANGED chatVars
    \/ tick /\ UNCHANGED chatVars
    \/ stopListening /\ UNCHANGED chatVars
    \/ stopRecording_stopAndUnload_done /\ UNCHANGED chatVars
    \/ stopRecording_setAudioMode_done /\ UNCHANGED chatVars
    \/ stopListening_wait500_done /\ UNCHANGED chatVars
    \/ playAIResponse_wait300_done /\ UNCHANGED chatVars
    \/ onDone /\ UNCHANGED chatVars
    \/ onError /\ UNCHANGED chatVars
    \/ stopSpeech /\ UNCHANGED chatVars
    \/ cancelVoiceChat /\ UNCHANGED chatVars
    \/ handleClose /\ UNCHANGED chatVars
    \/ cancelRecording_stopAndUnload_done /\ UNCHANGED chatVars
    \/ cancelRecording_setAudioMode_done /\ UNCHANGED chatVars

Spec == Init /\ [][Next]_vars

TypeOK ==
    /\ state \in {"idle", "listening", "processing", "speaking"}
    /\ transcript \in {"", TranscriptDone}
    /\ aiResponse \in {"", ResponseText}
    /\ isPlaying \in BOOLEAN /\ isRecording \in BOOLEAN
    /\ recordingDuration \in 0..MaxDuration
    /\ hasPermission \in {"null", "true", "false"}
    /\ recordingRef \in BOOLEAN /\ intervalRef \in BOOLEAN
    /\ leakedInterval \in BOOLEAN
    /\ audioMode \in {"recording", "neutral"}
    /\ speech \in 0..MaxUtterances
    /\ BagCardinality(tasks) <= MaxTasks

\* A session with no cancel, no stopSpeech, no close and no failing platform
\* call: the same steps, those outcomes left out.
HappyStep ==
    last'.op \notin {"permissionDenied", "startFailed", "resetFailed",
                     "stopFailed", "stopNoUri", "onError", "stopSpeech",
                     "cancelPending", "cancelDone"}

HappyNext ==
    \/ startListening /\ HappyStep /\ UNCHANGED chatVars
    \/ requestPermissions_done /\ HappyStep /\ UNCHANGED chatVars
    \/ startRecording_setAudioMode_done /\ HappyStep /\ UNCHANGED chatVars
    \/ startRecording_createAsync_done /\ HappyStep /\ UNCHANGED chatVars
    \/ forceAudioReset_setAudioMode_done /\ HappyStep /\ UNCHANGED chatVars
    \/ tick /\ HappyStep /\ UNCHANGED chatVars
    \/ stopListening /\ HappyStep /\ UNCHANGED chatVars
    \/ stopRecording_stopAndUnload_done /\ HappyStep /\ UNCHANGED chatVars
    \/ stopRecording_setAudioMode_done /\ HappyStep /\ UNCHANGED chatVars
    \/ stopListening_wait500_done /\ HappyStep /\ UNCHANGED chatVars
    \/ playAIResponse_wait300_done /\ HappyStep /\ UNCHANGED chatVars
    \/ onDone /\ HappyStep /\ UNCHANGED chatVars

SpecHappy == Init /\ [][HappyNext]_vars

\* ------------------------------------------------------- processMessage
\* A string is the sequence of its characters.  The contents tried are the
\* concatenations of one to MaxParts of these pieces: the keywords in
\* several spellings, parts of a keyword, text with no keyword, and the
\* content ChatInput sends for a recording.  ChatInput sends no empty text.
MaxParts == 2
MaxCalls == 2

\* ChatInput.tsx:95
AudioContent ==
    <<"A", "u", "d", "i", "o", " ", "m", "e", "s", "s", "a", "g", "e">>

Pieces ==
    { <<"H", "o", "l", "a">>, <<"h", "e", "l", "l", "o">>,
      <<"T", "I", "E", "M", "P", "O">>, <<"c", "l", "i", "m", "a">>,
      <<"a", "y", "u", "d", "a">>, <<"H", "e", "l", "p">>,
      <<"g", "r", "a", "c", "i", "a", "s">>,
      <<"t", "h", "a", "n", "k", "s">>,
      <<"h", "o", "l">>, <<"a">>, <<"o", "k">>, AudioContent }

RECURSIVE Contents(_)
Contents(n) ==
    IF n = 1 THEN Pieces
    ELSE Contents(n - 1) \cup {c \o q : c \in Contents(n - 1), q \in Pieces}

\* String.prototype.toLowerCase on the letters that occur
LowerOf ==
    [A |-> "a", D |-> "d", E |-> "e", H |-> "h", I |-> "i", M |-> "m",
     O |-> "o", P |-> "p", T |-> "t", U |-> "u", Y |-> "y"]

toLowerCase(str) ==
    [i \in 1..Len(str) |->
        IF str[i] \in DOMAIN LowerOf THEN LowerOf[str[i]] ELSE str[i]]

\* String.prototype.includes
includes(str, search) ==
    \E i \in 0..Len(str) :
        /\ i + Len(search) <= Len(str)
        /\ \A j \in 1..Len(search) : str[i + j] = search[j]

\* helpers.ts:32-48: the fixed replies
GreetingReply == "¡Hola! Es un placer saludarte. ¿En qué puedo ayudarte hoy?"
WeatherReply == "Para consultar el clima, necesitaría integrar un servicio meteorológico. ¿Te gustaría que implemente esa funcionalidad?"
HelpReply == "Estoy aquí para ayudarte. Puedes enviarme mensajes de texto o grabaciones de audio. Pronto tendré más funcionalidades disponibles."
ThanksReply == "¡De nada! Siempre es un placer ayudarte. ¿Hay algo más en lo que pueda asistirte?"
AudioReply == "He recibido tu mensaje de audio. En el futuro podré transcribir y procesar el contenido de audio. ¿Hay algo específico que te gustaría que haga?"

\* helpers.ts:52-59
defaultResponses ==
    << "Interesante mensaje. He procesado tu información correctamente.",
       "Entiendo lo que me dices. ¿Hay algo específico en lo que pueda ayudarte?",
       "Gracias por tu mensaje. Estoy aquí para asistirte en lo que necesites.",
       "He recibido tu mensaje. ¿Te gustaría que realice alguna tarea específica?",
       "Perfecto, he procesado tu solicitud. ¿Qué más puedo hacer por ti?",
       "Tu mensaje ha sido procesado. ¿Necesitas que ejecute alguna acción en particular?" >>

\* processMessage as it would be with the thanks checked ahead of the
\* greeting
processMessage_thanksFirst(content, type) ==
    LET lowerContent == toLowerCase(content)
    IN  IF \/ includes(lowerContent, <<"g", "r", "a", "c", "i", "a", "s">>)
           \/ includes(lowerContent, <<"t", "h", "a", "n", "k", "s">>)
        THEN {ThanksReply}
        ELSE IF \/ includes(lowerContent, <<"h", "o", "l", "a">>)
                \/ includes(lowerContent, <<"h", "e", "l", "l", "o">>)
        THEN {GreetingReply}
        ELSE IF \/ includes(lowerContent, <<"t", "i", "e", "m", "p", "o">>)
                \/ includes(lowerContent, <<"c", "l", "i", "m", "a">>)
        THEN {WeatherReply}
        ELSE IF \/ includes(lowerContent, <<"a", "y", "u", "d", "a">>)
                \/ includes(lowerContent, <<"h", "e", "l", "p">>)
        THEN {HelpReply}
        ELSE IF type = "audio"
        THEN {AudioReply}
        ELSE {defaultResponses[r] : r \in 1..Len(defaultResponses)}

\* processMessage as it would be with the audio acknowledgement left out
processMessage_noAudioReply(content, type) ==
    LET lowerContent == toLowerCase(content)
    IN  IF \/ includes(lowerContent, <<"h", "o", "l", "a">>)
           \/ includes(lowerContent, <<"h", "e", "l", "l", "o">>)
        THEN {GreetingReply}
        ELSE IF \/ includes(lowerContent, <<"t", "i", "e", "m", "p", "o">>)
                \/ includes(lowerContent, <<"c", "l", "i", "m", "a">>)
        THEN {WeatherReply}
        ELSE IF \/ includes(lowerContent, <<"a", "y", "u", "d", "a">>)
                \/ includes(lowerContent, <<"h", "e", "l", "p">>)
        THEN {HelpReply}
        ELSE IF \/ includes(lowerContent, <<"g", "r", "a", "c", "i", "a", "s">>)
                \/ includes(lowerContent, <<"t", "h", "a", "n", "k", "s">>)
        THEN {ThanksReply}
        ELSE {defaultResponses[r] : r \in 1..Len(defaultResponses)}

\* helpers.ts:28-61: the replies a call may return; the last branch indexes
\* defaultResponses by Math.floor(Math.random() * 6)
processMessage(content, type) ==
    LET lowerContent == toLowerCase(content)
    IN  IF \/ includes(lowerContent, <<"h", "o", "l", "a">>)
           \/ includes(lowerContent, <<"h", "e", "l", "l", "o">>)
        THEN {GreetingReply}
        ELSE IF \/ includes(lowerContent, <<"t", "i", "e", "m", "p", "o">>)
                \/ includes(lowerContent, <<"c", "l", "i", "m", "a">>)
        THEN {WeatherReply}
        ELSE IF \/ includes(lowerContent, <<"a", "y", "u", "d", "a">>)
                \/ includes(lowerContent, <<"h", "e", "l", "p">>)
        THEN {HelpReply}
        ELSE IF \/ includes(lowerContent, <<"g", "r", "a", "c", "i", "a", "s">>)
                \/ includes(lowerContent, <<"t", "h", "a", "n", "k", "s">>)
        THEN {ThanksReply}
        ELSE IF type = "audio"
        THEN {AudioReply}
        ELSE {defaultResponses[r] : r \in 1..Len(defaultResponses)}

\* helpers.ts:24-26: a call of processMessage, up to its pending timer; the
\* calls followed are calls with one and the same input
processMessage_call ==
    /\ pm.pending + Len(pm.replies) < MaxCalls
    /\ \/ /\ pm = NoCall
          /\ \E content \in Contents(MaxParts), type \in {"text", "audio"} :
               pm' = [NoCall EXCEPT !.content = content, !.kind = type,
                                    !.pending = 1]
       \/ /\ pm # NoCall
          /\ pm' = [pm EXCEPT !.pending = pm.pending + 1]
    /\ UNCHANGED <<voiceVars, screenVars>>

\* helpers.ts:26-61: the timer is over and the call returns its reply
processMessage_return ==
    /\ pm.pending > 0
    /\ \E reply \in processMessage(pm.content, pm.kind) :
         pm' = [pm EXCEPT !.pending = pm.pending - 1,
                          !.replies = Append(pm.replies, reply)]
    /\ UNCHANGED <<voiceVars, screenVars>>

NextProcessMessage ==
    \/ processMessage_call
    \/ processMessage_return

SpecProcessMessage == Init /\ [][NextProcessMessage]_vars

\* ----------------------------------------------------------- ChatScreen
\* The chat screen: handleSendMessage, called by ChatInput's send button
\* (text, only while isLoading is false) and by its stop-recording button
\* (audio, whatever isLoading is), and handleNewChat.  The bookkeeping of
\* currentChatId and chatHistory, the sidebar and the scrolling are left
\* out: nothing here reads them.
MaxSends == 3

\* the texts typed: one with a keyword, one without
ChatTexts == {"Hola", "ok"}

\* ChatInput.tsx:95: the content sent for a recording
AudioText == "Audio message"

\* the characters of the contents sent
Chars(content) ==
    CASE content = "Hola" -> <<"H", "o", "l", "a">>
      [] content = "ok" -> <<"o", "k">>
      [] content = AudioText -> AudioContent

\* ChatScreen.tsx:84-90
NewChatMessage ==
    [isUser |-> FALSE, content |-> "¡Hola! ¿Que tarea quieres que haga?",
     type |-> "text", req |-> 0]

\* ChatScreen.tsx:176
ErrorContent == "Lo siento, hubo un error procesando tu mensaje. Por favor, inténtalo de nuevo."

\* ChatScreen.tsx:119-127
UserMessage(content, type, n) ==
    [isUser |-> TRUE, content |-> content, type |-> type, req |-> n]

\* ChatScreen.tsx:157-163 and 174-180
BotMessage(text, n) ==
    [isUser |-> FALSE, content |-> text, type |-> "text", req |-> n]

\* ChatScreen.tsx:113-155: handleSendMessage up to its await
handleSendMessage(content, type) ==
    /\ sent < MaxSends
    /\ sent' = sent + 1
    /\ messages' = Append(messages, UserMessage(content, type, sent + 1))
    /\ isLoading' = TRUE
    /\ requests' = requests \cup
                      {[n |-> sent + 1, content |-> content, type |-> type,
                        messages |-> messages]}
    /\ UNCHANGED <<voiceVars, pm>>

\* ChatInput.tsx:40-47: the send button; the text is trimmed and not empty
handleSendText ==
    /\ ~isLoading
    /\ \E message \in ChatTexts : handleSendMessage(message, "text")

\* ChatInput.tsx:78-97: the stop button of a recording; the message is sent
\* if the recorder returned a result with a uri
handleStopRecording ==
    handleSendMessage(AudioText, "audio")

\* ChatScreen.tsx:155-159 and 172-176: the text of the answer, the reply
\* returned or the catch's
handleSendMessage_answer(outcome) ==
    IF outcome = "throws" THEN ErrorContent ELSE outcome

\* setMessages_append as it would be if the new list were built from the
\* messages of the render the call was made in
setMessages_append_fromClosure(prev, closure, message) ==
    Append(closure, message)

\* ChatScreen.tsx:165 and 182: setMessages(prev => [...prev, message])
setMessages_append(prev, closure, message) == Append(prev, message)

\* ChatScreen.tsx:155-184: processMessage has returned to call n, which
\* holds the messages of the render it was made in.  processMessage has no
\* throwing outcome.
handleSendMessage_reply(n) ==
    \E r \in requests :
      /\ r.n = n
      /\ \E outcome \in processMessage(Chars(r.content), r.type) :
           messages' = setMessages_append(messages, r.messages,
                           BotMessage(handleSendMessage_answer(outcome), n))
      /\ isLoading' = FALSE
      /\ requests' = requests \ {r}
      /\ UNCHANGED <<voiceVars, pm, sent>>

\* ChatScreen.tsx:82-91, the header's button and the sidebar's
handleNewChat ==
    /\ messages' = <<NewChatMessage>>
    /\ UNCHANGED <<voiceVars, pm, isLoading, requests, sent>>

NextChat ==
    \/ handleSendText
    \/ handleStopRecording
    \/ \E n \in 1..MaxSends : handleSendMessage_reply(n)
    \/ handleNewChat

SpecChat == Init /\ [][NextChat]_vars

\* helpers.ts:26: the timer processMessage waits on always fires, so every
\* call of it returns
FairSpecChat ==
    SpecChat /\ \A n \in 1..MaxSends : WF_vars(handleSendMessage_reply(n))

\* =============================================================== claims

\* C1: whenever a cancelVoiceChat has run to completion, whatever the state
\* it was invoked in, state is idle and transcript and aiResponse are empty.
C1_CancelEndsIdleAndCleared ==
    last.op = "cancelDone" =>
        state = "idle" /\ transcript = "" /\ aiResponse = ""

\* a cancelVoiceChat completed on a turn that had reached speaking: its
\* stopListening is still in the 500 ms wait, the turn data had been set
C1_Witness ==
    /\ last.op = "cancelDone"
    /\ \E t \in Pending : t.fn = "stopListening" /\ t.pc = "wait500"

\* C2: a stopListening that resumes after a cancelVoiceChat completed while
\* it was suspended does nothing: it neither returns a result into the
\* session (state speaking, transcript, aiResponse) nor calls Speech.speak.
C2_CancelledContinuationInert ==
    last.cancelled => last.op \notin {"stopResult", "speak"}

\* C3: no state has the recorder holding a handle while an utterance of
\* playAIResponse is playing.
C3_RecordingXorPlayback == ~(recordingRef /\ speech > 0)

\* C4: isRecording = true implies state = listening.
C4_RecordingImpliesListening == isRecording => state = "listening"

\* C5: a recording handle is held if and only if isRecording = true.
C5_HandleIffRecording == recordingRef <=> isRecording

\* C6: no idle state has a recording handle still held or an utterance
\* still playing.
C6_IdleHoldsNoResource == state = "idle" => ~recordingRef /\ speech = 0

\* C7: at the moment Speech.speak is called the audio mode is not
\* recording-enabled.
C7_NeutralWhenSpeaking == last.op = "speak" => audioMode # "recording"

\* C8: with no cancel, no stopSpeech and no failure, state changes only
\* idle to listening by startListening, listening to processing by
\* stopListening (and on to idle at once only if the recorder had no handle
\* and returned null), processing to speaking when the recorder returns a
\* result with a uri, and speaking to idle by onDone; a result with a uri
\* always moves processing to speaking and onDone always moves speaking to
\* idle.
C8_TurnSequence ==
    [][ /\ state' # state =>
            \/ state = "idle" /\ state' = "listening"
                 /\ last'.op = "startListening"
            \/ state = "listening" /\ state' = "processing"
                 /\ last'.op = "stopListening"
            \/ state = "listening" /\ state' = "idle"
                 /\ last'.op = "stopNoHandle"
            \/ state = "processing" /\ state' = "speaking"
                 /\ last'.ret.kind = "result" /\ last'.ret.uri = "file"
            \/ state = "speaking" /\ state' = "idle" /\ last'.op = "onDone"
        /\ last'.op = "stopResult" =>
              state = "processing" /\ state' = "speaking"
        /\ last'.op = "onDone" => state = "speaking" /\ state' = "idle"
        /\ last'.op = "startListening" => state' = "listening"
        /\ last'.op = "stopListening" => state' = "processing"
      ]_vars

\* a whole turn has run: the utterance of a turn that recorded, stopped and
\* spoke has just finished
C8_Witness ==
    /\ last.op = "onDone" /\ state = "idle"
    /\ transcript = TranscriptDone /\ ~recordingRef

\* C9: when stopRecording returns a result, its duration is the number of
\* ticks that fired between the opening of the capture and the call.
C9_DurationIsTickCount ==
    last.ret.kind = "result" => last.ret.duration = last.ret.n

\* three ticks, then a stop that returned a result
C9_Witness == last.ret.kind = "result" /\ last.ret.n = 3

\* C10: stopRecording called with no handle returns null and leaves
\* isRecording, recordingDuration, the tick timer, the handle reference and
\* the audio mode as they were.
C10_StopWithoutHandleIsNoOp ==
    [][ last'.op = "stopNoHandle" =>
          /\ last'.ret.kind = "null"
          /\ UNCHANGED <<isRecording, recordingDuration, intervalRef,
                         leakedInterval, recordingRef, audioMode>>
      ]_vars

\* a stop that found no handle although a startRecording had already
\* switched the audio mode
C10_Witness == last.op = "stopNoHandle" /\ audioMode = "recording"

\* C11: a cancelVoiceChat that found a capture open (it went through
\* cancelRecording's platform calls) ends with state idle, transcript and
\* aiResponse empty, the handle released, isRecording false, the tick timer
\* cleared and recordingDuration 0.
C11_CancelReleasesRecorder ==
    [][ /\ last'.op = "cancelDone"
        /\ BagCardinality(tasks') < BagCardinality(tasks)
        => /\ state' = "idle" /\ transcript' = "" /\ aiResponse' = ""
           /\ ~recordingRef' /\ ~isRecording' /\ ~intervalRef'
           /\ recordingDuration' = 0
      ]_vars

\* C13: stopSpeech, invoked while state is speaking, leaves state idle in
\* the same step, also when Speech.speak has not been called yet for the
\* turn (the 500 ms and 300 ms waits before it).
C13_StopSpeechGoesIdleAtOnce ==
    [][ last'.op = "stopSpeech" => state = "speaking" /\ state' = "idle"
      ]_vars

\* stopSpeech has just run on a turn still in its 500 ms wait: no utterance
\* had been started
C13_Witness ==
    /\ last.op = "stopSpeech" /\ state = "idle" /\ speech = 0
    /\ \E t \in Pending : t.fn = "stopListening" /\ t.pc = "wait500"

\* C14: whenever the engine ends an utterance, by onDone, onError or
\* onStopped (a Speech.stop() on an utterance queued or playing), the
\* session is not in speaking afterwards.
C14_UtteranceEndLeavesSpeaking ==
    [][ speech' < speech => state' # "speaking" ]_vars

\* C15: when startRecording has ended without opening a handle (permission
\* denied, setAudioModeAsync or Recording.createAsync failed), the session
\* is not left in listening.
C15_FailedStartLeavesListening ==
    last.op \in {"permissionDenied", "startFailed"} => state # "listening"

\* C16: startRecording, stopRecording and cancelRecording never reject,
\* whichever platform call fails: startRecording and cancelRecording come
\* back to their caller normally, and stopRecording comes back with a
\* result or with null.
C16_RecorderCallsReturn ==
    /\ last.ret.kind \in {"none", "void", "null", "result"}
    /\ last.op \in {"stopNoHandle", "stopFailed", "stopNoUri", "stopResult"}
           => last.ret.kind \in {"null", "result"}
    /\ last.op \in {"permissionDenied", "startFailed", "opened"}
           => last.ret.kind = "void"
    /\ last.op = "cancelDone" => last.ret.kind \in {"none", "void"}

\* a stopRecording whose platform call rejected has come back with null,
\* the capture still referenced
C16_Witness ==
    last.op = "stopFailed" /\ last.ret.kind = "null" /\ recordingRef

C18_NoOpenWhileHandleHeld ==
    [][ last'.op = "opened" => ~recordingRef /\ ~intervalRef ]_vars

\* C19: at no time are two audio-mode-setting operations in flight
\* together, the operations being the setAudioModeAsync of startRecording,
\* of stopRecording and of cancelRecording and the reset loop of
\* forceAudioReset.
C19_AudioModeOpsSequenced ==
    LET ops == {u \in Pending : u.pc \in {"reset", "setAudioMode"}}
    IN  /\ Cardinality(ops) <= 1
        /\ \A u \in ops : CopiesIn(u, tasks) = 1

C21_CancelIdempotent ==
    [][ last.op = "cancelDone" /\ cancelVoiceChat
          => UNCHANGED <<state, transcript, aiResponse, isPlaying,
                         isRecording, recordingDuration, recordingRef,
                         intervalRef, leakedInterval, audioMode, speech>>
      ]_vars

\* C22: an onDone or onError delivered when a later turn has started
\* (state listening or processing) leaves state as it is.
C22_StaleCallbackInert ==
    [][ /\ last'.op \in {"onDone", "onError"}
        /\ state \in {"listening", "processing"}
        => state' = state
      ]_vars

C24_DeniedStartChangesNothing ==
    [][ last'.op = "permissionDenied" =>
          /\ hasPermission' = "false"
          /\ last'.ret.kind = "void"
          /\ UNCHANGED <<recordingRef, intervalRef, leakedInterval,
                         isRecording, recordingDuration, audioMode>>
          /\ ~isRecording => ~isRecording'
      ]_vars

\* the request has just been denied: nothing is open, nothing counts
C24_Witness ==
    /\ last.op = "permissionDenied" /\ hasPermission = "false"
    /\ ~recordingRef /\ ~intervalRef /\ ~isRecording
    /\ recordingDuration = 0 /\ audioMode = "neutral"

\* C25: forceAudioReset is idempotent.  Its entry (Speech.stop()) and each
\* of its passes leave session state, turn data and recorder state as they
\* are; a pass that succeeds leaves the audio mode neutral, and a pass run
\* on a neutral mode, as the second and third always are when nothing else
\* sets the mode in between, leaves it neutral.
C25_ResetIdempotent ==
    [][ /\ last'.op \in {"resetMode", "resetFailed"} =>
              /\ UNCHANGED <<state, transcript, aiResponse, isPlaying,
                             isRecording, recordingDuration, recordingRef,
                             intervalRef, leakedInterval, speech>>
              /\ audioMode = "neutral" => audioMode' = "neutral"
              /\ last'.op = "resetMode" => audioMode' = "neutral"
        /\ last'.op \in {"permissionDenied", "startFailed", "opened"} =>
              /\ speech' = 0
              /\ UNCHANGED <<state, transcript, aiResponse, isPlaying,
                             audioMode>>
      ]_vars

\* the second pass has just run, on the neutral mode the first had left,
\* with the capture open
C25_Witness ==
    /\ last.op = "resetMode" /\ audioMode = "neutral"
    /\ recordingRef /\ isRecording /\ state = "listening"
    /\ \E t \in Pending : t.pc = "reset" /\ t.i = 2

\* C26: every change of state is one of the table's transitions: idle to
\* listening, listening to processing (and on to idle in the same step when
\* the recorder had no handle), processing to speaking, processing to idle,
\* speaking to idle, or a non-idle state to idle by cancel.  State never
\* goes from idle to processing or speaking, nor from listening to speaking.
C26_OnlyTableTransitions ==
    [][ state' # state =>
          \/ state = "idle" /\ state' = "listening"
          \/ state = "listening" /\ state' = "processing"
          \/ state = "listening" /\ state' = "idle"
               /\ last'.op = "stopNoHandle"
          \/ state = "processing" /\ state' \in {"speaking", "idle"}
          \/ state = "speaking" /\ state' = "idle"
          \/ state # "idle" /\ state' = "idle" /\ last'.op = "cancelDone"
      ]_vars

\* C27: when stopRecording comes back to stopListening with null or with a
\* result that has no uri, the session goes from processing to idle (from
\* listening, through processing, when the recorder had no handle), with
\* transcript and aiResponse empty and no Speech.speak called: no utterance
\* is added and the call is over.
C27_NoResultGoesIdle ==
    [][ last'.op \in {"stopNoHandle", "stopFailed", "stopNoUri"} =>
          /\ state = IF last'.op = "stopNoHandle" THEN "listening"
                                                  ELSE "processing"
          /\ state' = "idle"
          /\ transcript' = "" /\ aiResponse' = ""
          /\ speech' = speech
          /\ BagCardinality(tasks') <= BagCardinality(tasks)
          /\ \A u \in BagToSet(tasks') :
                u.pc \in {"wait500", "wait300"} => u \in Pending
      ]_vars

\* C28: an utterance of playAIResponse is queued or playing only in the
\* speaking state, and Speech.speak is called only in the speaking state:
\* not after stopSpeech or cancelVoiceChat has set state idle during the
\* waits before it.
C28_SpeechOnlyInSpeaking ==
    /\ speech > 0 => state = "speaking"
    /\ last.op = "speak" => state = "speaking"

\* C29: from the opening of a handle to the stopRecording or
\* cancelRecording that releases it (the handle is held and isRecording is
\* true), the audio mode is recording-enabled.
C29_RecordingModeWhileHandleOpen ==
    recordingRef /\ isRecording => audioMode = "recording"

\* C30: recordingDuration is set to 0 when a handle is opened and changes
\* afterwards only by +1 at a tick of that capture's timer, while the
\* handle is held and the capture has been neither stopped nor cancelled;
\* at most one tick timer is live; a cancelRecording that has run leaves
\* recordingDuration 0.
C30_DurationCountsTicksOfOneTimer ==
    [][ /\ last'.op = "opened" => recordingDuration' = 0
        /\ recordingDuration' # recordingDuration =>
              \/ last'.op = "opened"
              \/ /\ last'.op = "tick"
                 /\ recordingDuration' = recordingDuration + 1
                 /\ recordingRef /\ isRecording /\ intervalRef
              \/ last'.op = "cancelDone" /\ recordingDuration' = 0
        /\ ~(intervalRef' /\ leakedInterval')
        /\ last'.op = "cancelDone" /\ last'.ret.kind = "void"
              => recordingDuration' = 0
      ]_vars

\* C31: in the chat screen isLoading is true whenever a reply is pending.
C31_LoadingWhilePending == requests # {} => isLoading

\* C32: every handleSendMessage call appends exactly one user message, and
\* is eventually followed by exactly one assistant message for it, holding
\* the reply generated for its content and kind, whatever the order in which
\* overlapping calls complete: a call is answered when it leaves the pending
\* ones, it leaves them once, nothing else is appended to the list, and
\* whatever is pending is answered later on (again and again no call is
\* pending).
C32_EachSendAnsweredOnce ==
    /\ [][ LET Pending_n(rs) == {r.n : r \in rs}
               last_m == messages'[Len(messages')]
               appended == /\ Len(messages') = Len(messages) + 1
                           /\ SubSeq(messages', 1, Len(messages)) = messages
           IN  /\ (sent' # sent) =>
                     (/\ sent' = sent + 1
                      /\ appended
                      /\ last_m.isUser /\ last_m.req = sent'
                      /\ Pending_n(requests') =
                             Pending_n(requests) \cup {sent'})
               /\ (\A r \in requests :
                      r \in requests'
                      \/ (/\ appended
                          /\ ~last_m.isUser /\ last_m.req = r.n
                          /\ last_m.content
                               \in processMessage(Chars(r.content), r.type)
                          /\ requests' = requests \ {r}
                          /\ sent' = sent))
               /\ (messages' # messages) =>
                     (\/ sent' # sent
                      \/ requests' # requests
                      \/ messages' = <<NewChatMessage>>)
               /\ Pending_n(requests') \subseteq 1..sent'
               /\ Cardinality(Pending_n(requests')) = Cardinality(requests')
          ]_vars
    /\ []<>(requests = {})

\* a text and a recording were sent one on top of the other, and the
\* recording was answered first
C32_Witness ==
    /\ requests = {} /\ Len(messages) = 5
    /\ messages[2].isUser /\ messages[2].req = 1
    /\ messages[3].isUser /\ messages[3].req = 2 /\ messages[3].type = "audio"
    /\ ~messages[4].isUser /\ messages[4].req = 2
    /\ messages[4].content = AudioReply
    /\ ~messages[5].isUser /\ messages[5].req = 1

\* C33: every reply of processMessage is the one of the first rule, in the
\* order greeting, weather, help, thanks, that has a keyword occurring in
\* the content with letter case ignored, whatever the kind; with no such
\* rule it is the audio acknowledgement if the kind is audio, and otherwise
\* one of the six default responses.
C33_ReplyByPriority ==
    LET rules ==
            << [keywords |-> { <<"h", "o", "l", "a">>,
                               <<"h", "e", "l", "l", "o">> },
                reply |-> GreetingReply],
               [keywords |-> { <<"t", "i", "e", "m", "p", "o">>,
                               <<"c", "l", "i", "m", "a">> },
                reply |-> WeatherReply],
               [keywords |-> { <<"a", "y", "u", "d", "a">>,
                               <<"h", "e", "l", "p">> },
                reply |-> HelpReply],
               [keywords |-> { <<"g", "r", "a", "c", "i", "a", "s">>,
                               <<"t", "h", "a", "n", "k", "s">> },
                reply |-> ThanksReply] >>
        lc == toLowerCase(pm.content)
        matching == {i \in 1..Len(rules) :
                        \E k \in rules[i].keywords : includes(lc, k)}
    IN  \A i \in 1..Len(pm.replies) :
          IF matching # {}
          THEN \E m \in matching :
                 /\ \A o \in matching : m <= o
                 /\ pm.replies[i] = rules[m].reply
          ELSE IF pm.kind = "audio"
          THEN pm.replies[i] = AudioReply
          ELSE \E r \in 1..Len(defaultResponses) :
                 pm.replies[i] = defaultResponses[r]

\* a recording whose content thanks before it greets, in capitals, has got
\* the greeting
C33_Witness ==
    /\ pm.kind = "audio"
    /\ pm.content = <<"g", "r", "a", "c", "i", "a", "s", "H", "o", "l", "a">>
    /\ Len(pm.replies) > 0 /\ pm.replies[1] = GreetingReply

====
